---- MODULE Spec2Model ----
(***************************************************************************)
(* MenoCare: the record store of the Streamlit session, the validator and  *)
(* preprocessor, the local and cloud JSON files behind the sync manager,   *)
(* and the Gemini insight client, as state machines.                       *)
(*                                                                         *)
(* Conventions.  A Python dict is a TLA+ record: `k in d` is               *)
(* k \in DOMAIN d, and {} is the record with the empty domain.  A date     *)
(* string 'YYYY-MM-DD' is the tuple <<Y, M, D>>; a parsed timestamp is the *)
(* day number within the modelled calendar.  A score is an integer number  *)
(* of hundredths (7.0 is 700), so that round(x, 1) is a real operation.    *)
(* Every operation leaves its name and arguments in `call` and its         *)
(* outcome in `ret`: [exc |-> "none", val |-> v] for a normal return and   *)
(* [exc |-> <exception class>] for a raised exception.                     *)
(***************************************************************************)
EXTENDS Integers, Sequences, FiniteSets, TLC

VARIABLES
    health_records,   \* st.session_state.health_records (data_store.py)
    local_records,    \* data/health_records.json       ["records"]
    local_feedback,   \* data/feedback_history.json     ["feedback"]
    cloud_records,    \* cloud_storage/health_records.json ["records"]
    cloud_feedback,   \* cloud_storage/feedback.json    ["feedback"]
    local_user_data,  \* data/user_data.json
    cloud_user_data,  \* cloud_storage/user_data.json
    call,             \* the operation last invoked, with its arguments
    ret,              \* what that operation returned or raised
    steps,            \* number of state-changing operations invoked so far
    writers           \* the threads inside a save: position and what each loaded

vars == <<health_records, local_records, local_feedback,
          cloud_records, cloud_feedback, local_user_data, cloud_user_data,
          call, ret, steps, writers>>

record_files == <<local_records, local_feedback, cloud_records, cloud_feedback>>

files == <<record_files, local_user_data, cloud_user_data>>

(***************************************************************************)
(* Generic helpers                                                         *)
(***************************************************************************)
EmptyDict == [k \in {} |-> TRUE]

Returned(v) == [exc |-> "none", val |-> v]

Raised(e) == [exc |-> e]

NoCall == [op |-> "none"]

NoRet == [exc |-> "none", val |-> EmptyDict]

\* d restricted to the keys in `keys`
Restrict(d, keys) == [k \in (DOMAIN d \cap keys) |-> d[k]]

ListOf(items) == [type |-> "list", items |-> items]

StrOf(text) == [type |-> "str", text |-> text]

Range(seq) == {seq[i] : i \in DOMAIN seq}

\* s[-n:] for n >= 1
LastN(s, n) == IF Len(s) <= n THEN s ELSE SubSeq(s, Len(s) - n + 1, Len(s))

SeqsUpTo(S, n) == UNION {[1..k -> S] : k \in 0..n}

RECURSIVE SeqMax(_)
SeqMax(s) ==
    IF Len(s) = 1 THEN s[1]
    ELSE LET m == SeqMax(Tail(s)) IN IF s[1] >= m THEN s[1] ELSE m

(***************************************************************************)
(* Calendar: the dates of January to March 2024                            *)
(***************************************************************************)
DaysInMonth(m) == CASE m = 1 -> 31 [] m = 2 -> 29 [] m = 3 -> 31

AllDates == {<<2024, m, d>> : m \in 1..3, d \in 1..31} \
            {dt \in {<<2024, m, d>> : m \in 1..3, d \in 1..31} : dt[3] > DaysInMonth(dt[2])}

\* pd.to_datetime / datetime.strptime(x, "%Y-%m-%d"): date string -> timestamp
to_datetime(date) ==
    LET before == CASE date[2] = 1 -> 0
                    [] date[2] = 2 -> DaysInMonth(1)
                    [] date[2] = 3 -> DaysInMonth(1) + DaysInMonth(2)
    IN before + date[3]

\* .strftime("%Y-%m-%d"): timestamp -> date string
strftime(n) == CHOOSE date \in AllDates : to_datetime(date) = n

\* datetime.now() of the session: 2024-02-20
Now == to_datetime(<<2024, 2, 20>>)

(***************************************************************************)
(* Record Store (utils/data_store.py).  The class defines                  *)
(* initialize_session_state, get_data_for_period and add_health_record     *)
(* twice; the later definition of each is the one bound to the class.      *)
(***************************************************************************)
MaxRecords == 30

SeedDays == 30

WeekDays == 6

MonthDays == 29

MaxAdds == 3

\* One generated day.  The random draws of generate_realistic_data are
\* replaced by their base values (mood 7, sleep 7): no store operation
\* reads more of a record than its date, mood.score and sleep.quality.
daily_record(n) ==
    [date  |-> strftime(n),
     mood  |-> [score |-> 700, triggers |-> <<"Weather">>, notes |-> ""],
     sleep |-> [quality |-> 700, issues |-> <<"None">>]]

\* while current_date <= end_date: data.append(...); current_date += 1 day
generate_realistic_data(start_date, end_date) ==
    [i \in 1..(end_date - start_date + 1) |-> daily_record(start_date + i - 1)]

\* health_records after initialize_session_state on a fresh session
initialize_session_state ==
    generate_realistic_data(Now - SeedDays, Now)

\* collect_form_data: the record the daily-input page submits
collect_form_data(date, mood_score, sleep_quality) ==
    [date  |-> date,
     mood  |-> [score |-> mood_score, triggers |-> << >>, notes |-> ""],
     sleep |-> [quality |-> sleep_quality, issues |-> << >>]]

add_health_record_keeps_first(records, record) ==
    LET appended == Append(records, record)
    IN  IF Len(appended) > MaxRecords
        THEN SubSeq(appended, 1, MaxRecords)
        ELSE appended

\* the new record takes the place of the last one of a full store
add_health_record_replaces_last(records, record) ==
    IF Len(records) + 1 > MaxRecords
    THEN Append(SubSeq(records, 1, MaxRecords - 1), record)
    ELSE Append(records, record)

add_health_record(records, record) ==
    LET appended == Append(records, record)
    IN  IF Len(appended) > MaxRecords
        THEN LastN(appended, MaxRecords)
        ELSE appended

period_days(period) == IF period = "week" THEN WeekDays ELSE MonthDays

\* the value pandas puts where a record has no entry for a column
NaN == [type |-> "float", value |-> "nan"]

\* the columns of pd.DataFrame(records): every key of every record
columns(records) == UNION {DOMAIN records[i] : i \in DOMAIN records}

\* a row whose date column is left as parsed, not formatted back to a string
window_row_keeps_timestamp(record, cols) ==
    [k \in cols \cup {"mood_score", "sleep_quality"} |->
        IF k = "date" THEN <<"Timestamp", to_datetime(record.date)>>
        ELSE IF k = "mood_score" THEN record.mood.score
        ELSE IF k = "sleep_quality" THEN record.sleep.quality
        ELSE IF k \in DOMAIN record THEN record[k]
        ELSE NaN]

\* A row of the returned DataFrame: the record's entry under every column
\* (NaN where it has none), the date parsed and formatted again, plus the
\* two extracted columns.
window_row(record, cols) ==
    [k \in cols \cup {"mood_score", "sleep_quality"} |->
        IF k = "date" THEN strftime(to_datetime(record.date))
        ELSE IF k = "mood_score" THEN record.mood.score
        ELSE IF k = "sleep_quality" THEN record.sleep.quality
        ELSE IF k \in DOMAIN record THEN record[k]
        ELSE NaN]

get_data_for_period_strict(records, period) ==
    IF records = << >> THEN << >>
    ELSE
        LET ts == [i \in DOMAIN records |-> to_datetime(records[i].date)]
            end_date == SeqMax(ts)
            start_date == end_date - period_days(period)
            InWindow(r) == to_datetime(r.date) > start_date
            filtered == SelectSeq(records, InWindow)
            cols == columns(records)
        IN  [i \in DOMAIN filtered |-> window_row(filtered[i], cols)]

\* the window of one generated day handed out when the store is empty
get_data_for_period_mock_when_empty(records, period) ==
    IF records = << >>
    THEN <<window_row(daily_record(Now), {"date", "mood", "sleep"})>>
    ELSE
        LET ts == [i \in DOMAIN records |-> to_datetime(records[i].date)]
            end_date == SeqMax(ts)
            start_date == end_date - period_days(period)
            InWindow(r) == to_datetime(r.date) >= start_date
            filtered == SelectSeq(records, InWindow)
            cols == columns(records)
        IN  [i \in DOMAIN filtered |-> window_row(filtered[i], cols)]

get_data_for_period(records, period) ==
    IF records = << >> THEN << >>
    ELSE
        LET ts == [i \in DOMAIN records |-> to_datetime(records[i].date)]
            end_date == SeqMax(ts)
            start_date == end_date - period_days(period)
            InWindow(r) == to_datetime(r.date) >= start_date
            filtered == SelectSeq(records, InWindow)
            cols == columns(records)
        IN  [i \in DOMAIN filtered |-> window_row(filtered[i], cols)]

\* Records handed to add_health_record: the page submits today's date
\* (which may have moved on since the session was seeded); the API itself
\* takes any date, so earlier dates are drawn too.
AddDates == {strftime(Now - 12), strftime(Now - 3), strftime(Now), strftime(Now + 2)}

AddRecords == {collect_form_data(d, s, 700) : d \in AddDates, s \in {300, 800}}

Periods == {"week", "month", "year"}

\* DataManager._initialize_storage: the user data written to a new file
user_data_template ==
    [user_id |-> "default_user", name |-> "Jane Doe", age |-> 52,
     menopause_stage |-> "Mid Stage", height |-> 163, weight |-> 58,
     start_date |-> strftime(Now)]

\* CloudStorage._initialize_storage: the user data written to a new file
default_user ==
    [user_id |-> "default_user", name |-> "Jane Doe", age |-> 52,
     menopause_stage |-> "Mid Stage", last_update |-> strftime(Now)]

\* the files right after both storages were initialised
NoFiles ==
    /\ local_records = << >>
    /\ local_feedback = << >>
    /\ cloud_records = << >>
    /\ cloud_feedback = << >>
    /\ local_user_data = user_data_template
    /\ cloud_user_data = default_user

Init ==
    /\ health_records = initialize_session_state
    /\ NoFiles
    /\ call = NoCall
    /\ ret = NoRet
    /\ steps = 0
    /\ writers = << >>

AddHealthRecord ==
    \E record \in AddRecords :
        /\ steps < MaxAdds
        /\ health_records' = add_health_record(health_records, record)
        /\ call' = [op |-> "add_health_record", record |-> record]
        /\ ret' = NoRet
        /\ steps' = steps + 1
        /\ UNCHANGED <<files, writers>>

GetDataForPeriod ==
    \E period \in Periods :
        /\ call' = [op |-> "get_data_for_period", period |-> period]
        /\ ret' = Returned(get_data_for_period(health_records, period))
        /\ UNCHANGED <<health_records, files, steps, writers>>

Next == AddHealthRecord \/ GetDataForPeriod

Spec == Init /\ [][Next]_vars

(***************************************************************************)
(* Validator and preprocessor (data_validator.py).  A value whose Python   *)
(* type the code tests carries it: [type |-> "list", items |-> <<...>>].   *)
(* Text is a tuple of characters.  Hours, minutes and intensities are      *)
(* hundredths like the scores.                                             *)
(***************************************************************************)
HasFields(data, required_fields) == required_fields \subseteq DOMAIN data

isinstance_list(v) == v.type = "list"

RECURSIVE lstrip(_)
lstrip(text) ==
    IF text # << >> /\ Head(text) = " " THEN lstrip(Tail(text)) ELSE text

RECURSIVE rstrip(_)
rstrip(text) ==
    IF text # << >> /\ text[Len(text)] = " "
    THEN rstrip(SubSeq(text, 1, Len(text) - 1))
    ELSE text

\* str.strip()
strip(text) == rstrip(lstrip(text))

\* round(float(x), 1) on hundredths; the inputs drawn never end in 5, where
\* the result would depend on the binary representation of the float
round1(x) == ((x + 5) \div 10) * 10

validate_mood_data_exclusive(data) ==
    IF ~HasFields(data, {"score", "triggers", "notes"}) THEN FALSE
    ELSE IF ~(100 < data.score /\ data.score < 1000) THEN FALSE
    ELSE IF ~isinstance_list(data.triggers) THEN FALSE
    ELSE TRUE

validate_mood_data(data) ==
    IF ~HasFields(data, {"score", "triggers", "notes"}) THEN FALSE
    ELSE IF ~(100 <= data.score /\ data.score <= 1000) THEN FALSE
    ELSE IF ~isinstance_list(data.triggers) THEN FALSE
    ELSE TRUE

validate_sleep_data(data) ==
    IF ~HasFields(data, {"hours", "quality", "issues"}) THEN FALSE
    ELSE IF ~(0 <= data.hours /\ data.hours <= 2400) THEN FALSE
    ELSE IF ~(100 <= data.quality /\ data.quality <= 1000) THEN FALSE
    ELSE TRUE

validate_diet_data(data) ==
    IF ~HasFields(data, {"meals", "water_intake", "supplements"}) THEN FALSE
    ELSE IF ~(0 <= data.water_intake /\ data.water_intake <= 3000) THEN FALSE
    ELSE IF ~isinstance_list(data.meals) THEN FALSE
    ELSE TRUE

\* all(0 <= intensity <= 10 for intensity in mapping.values())
intensities_in_range(mapping) ==
    \A k \in DOMAIN mapping : 0 <= mapping[k] /\ mapping[k] <= 1000

validate_symptoms_data(data) ==
    IF ~HasFields(data, {"physical", "emotional", "intensity"}) THEN FALSE
    ELSE IF ~intensities_in_range(data.physical) THEN FALSE
    ELSE IF ~intensities_in_range(data.emotional) THEN FALSE
    ELSE TRUE

validate_exercise_data(data) ==
    IF ~HasFields(data, {"type", "duration", "intensity"}) THEN FALSE
    ELSE IF ~(0 <= data.duration /\ data.duration <= 30000) THEN FALSE
    ELSE IF data.intensity \notin {"Low", "Moderate", "High"} THEN FALSE
    ELSE TRUE

normalize_dates(data) ==
    IF "date" \in DOMAIN data
    THEN [data EXCEPT !.date = strftime(to_datetime(data.date))]
    ELSE data

standardize_scores(data) ==
    LET d1 == IF "mood" \in DOMAIN data /\ "score" \in DOMAIN data.mood
              THEN [data EXCEPT !.mood.score = round1(data.mood.score)]
              ELSE data
    IN  IF "sleep" \in DOMAIN d1 /\ "quality" \in DOMAIN d1.sleep
        THEN [d1 EXCEPT !.sleep.quality = round1(d1.sleep.quality)]
        ELSE d1

clean_text_fields(data) ==
    LET d1 == IF "mood" \in DOMAIN data /\ "notes" \in DOMAIN data.mood
              THEN [data EXCEPT !.mood.notes = strip(data.mood.notes)]
              ELSE data
    IN  IF "diet" \in DOMAIN d1 /\ "notes" \in DOMAIN d1.diet
        THEN [d1 EXCEPT !.diet.notes = strip(d1.diet.notes)]
        ELSE d1

\* Each stage is bound through a singleton set, so that it is evaluated
\* once and the next stage works on its value.
process_health_record(data) ==
    CHOOSE cleaned \in
        {clean_text_fields(standardized) :
            standardized \in
                {standardize_scores(normalized) :
                    normalized \in {normalize_dates(d) : d \in {data}}}} : TRUE

(***************************************************************************)
(* Local JSON files (utils/data_manager.py).  The four files are passed    *)
(* around as one record F; an operation yields [exc, val, files].          *)
(***************************************************************************)
Files(lr, lf, cr, cf) ==
    [local_records |-> lr, local_feedback |-> lf,
     cloud_records |-> cr, cloud_feedback |-> cf]

Done(v, F) == [exc |-> "none", val |-> v, files |-> F]

Fail(e, F) == [exc |-> e, files |-> F]

None == [type |-> "NoneType"]

\* an instance of the HealthRecord dataclass
HealthRecord(date, mood, sleep, diet, symptoms, exercise) ==
    [class |-> "HealthRecord", date |-> date, mood |-> mood, sleep |-> sleep,
     diet |-> diet, symptoms |-> symptoms, exercise |-> exercise]

is_dict(x) == "class" \notin DOMAIN x

\* HealthRecord.to_dict: asdict(self)
to_dict(record) ==
    Restrict(record, {"date", "mood", "sleep", "diet", "symptoms", "exercise"})

\* a pandas Timestamp, as held by the rows of DataFrame.to_dict('records')
Timestamp(n) == <<"Timestamp", n>>

RecentDays == 7

\* DataManager.get_health_records(days): the rows dated >= now - days
get_health_records(F, days) ==
    LET Recent(r) == to_datetime(r.date) >= Now - days
        rows == SelectSeq(F.local_records, Recent)
    IN  [i \in DOMAIN rows |->
            [rows[i] EXCEPT !.date = Timestamp(to_datetime(rows[i].date))]]

RECURSIVE SumSeq(_)
SumSeq(s) == IF s = << >> THEN 0 ELSE Head(s) + SumSeq(Tail(s))

\* sum(xs) / len(xs), kept exact as a fraction of hundredths
mean(xs) == [num |-> SumSeq(xs), den |-> Len(xs)]

BelowSeven(avg) == avg.num < 700 * avg.den

_analyze_mood_trend(records) ==
    IF records = << >>
    THEN Returned([trend |-> "Not enough data", score |-> [num |-> 0, den |-> 1]])
    ELSE IF \E i \in DOMAIN records : "score" \notin DOMAIN records[i].mood
    THEN Raised("KeyError")
    ELSE
        LET mood_scores == [i \in DOMAIN records |-> records[i].mood.score]
        IN  Returned(
              [trend |-> IF Len(mood_scores) > 1
                            /\ mood_scores[Len(mood_scores)] > mood_scores[1]
                         THEN "improving" ELSE "stable",
               score |-> mean(mood_scores)])

_analyze_sleep_quality(records) ==
    IF records = << >>
    THEN Returned([quality |-> "No data", average_hours |-> [num |-> 0, den |-> 1]])
    ELSE IF \E i \in DOMAIN records :
                ~({"hours", "quality"} \subseteq DOMAIN records[i].sleep)
    THEN Raised("KeyError")
    ELSE Returned(
           [quality |-> mean([i \in DOMAIN records |-> records[i].sleep.quality]),
            average_hours |-> mean([i \in DOMAIN records |-> records[i].sleep.hours])])

\* The symptoms mappings drawn by the model hold numbers under every key
\* but these, whose values are a dict or text: sum() over the values of a
\* mapping that has one of them raises TypeError.
NonNumericKeys == {"physical", "emotional", "notes"}

RECURSIVE SumValues(_)
SumValues(d) ==
    IF DOMAIN d = {} THEN 0
    ELSE LET k == CHOOSE x \in DOMAIN d : TRUE
         IN  d[k] + SumValues(Restrict(d, DOMAIN d \ {k}))

_calculate_symptom_trend(records) ==
    IF Len(records) < 2 THEN Returned("Not enough data")
    ELSE
        LET first == records[1].symptoms
            last == records[Len(records)].symptoms
        IN  IF (DOMAIN first \cup DOMAIN last) \cap NonNumericKeys # {}
            THEN Raised("TypeError")
            ELSE LET total_change == SumValues(last) - SumValues(first)
                 IN  IF total_change < 0 THEN Returned("improving")
                     ELSE IF total_change > 0 THEN Returned("worsening")
                     ELSE Returned("stable")

_analyze_symptoms(records) ==
    IF records = << >>
    THEN Returned([changes |-> "No data", severity |-> "Unknown"])
    ELSE
        LET trend == _calculate_symptom_trend(records)
        IN  IF trend.exc # "none" THEN trend
            ELSE Returned([current_severity |-> records[Len(records)].symptoms,
                           trend |-> trend.val])

_generate_recommendations(records, current) ==
    LET mood_trend == _analyze_mood_trend(records)
        sleep_data == _analyze_sleep_quality(records)
        symptoms == _analyze_symptoms(records)
    IN  IF mood_trend.exc # "none" THEN mood_trend
        ELSE IF sleep_data.exc # "none" THEN sleep_data
        ELSE IF symptoms.exc # "none" THEN symptoms
        ELSE IF "trend" \notin DOMAIN symptoms.val THEN Raised("KeyError")
        ELSE Returned(
               (IF BelowSeven(mood_trend.val.score)
                THEN <<"Consider daily meditation or light exercise to improve mood">>
                ELSE << >>)
               \o (IF BelowSeven(sleep_data.val.average_hours)
                   THEN <<"Aim for 7-8 hours of sleep. Establish a regular bedtime routine">>
                   ELSE << >>)
               \o (IF symptoms.val.trend = "worsening"
                   THEN <<"Schedule a check-up with your healthcare provider">>
                   ELSE << >>))

\* DataManager.generate_feedback(current_record)
generate_feedback(F, current_record) ==
    LET recent_records == get_health_records(F, RecentDays)
        mood_trend == _analyze_mood_trend(recent_records)
        sleep_quality == _analyze_sleep_quality(recent_records)
        symptom_changes == _analyze_symptoms(recent_records)
        recommendations == _generate_recommendations(recent_records, current_record)
    IN  IF mood_trend.exc # "none" THEN Fail(mood_trend.exc, F)
        ELSE IF sleep_quality.exc # "none" THEN Fail(sleep_quality.exc, F)
        ELSE IF symptom_changes.exc # "none" THEN Fail(symptom_changes.exc, F)
        ELSE IF recommendations.exc # "none" THEN Fail(recommendations.exc, F)
        ELSE
            LET feedback ==
                  [date |-> current_record.date,
                   analysis |-> [mood_trend |-> mood_trend.val,
                                 sleep_quality |-> sleep_quality.val,
                                 symptom_changes |-> symptom_changes.val,
                                 recommendations |-> recommendations.val]]
            IN  Done(None,
                     [F EXCEPT !.local_feedback = Append(F.local_feedback, feedback)])

\* DataManager.save_daily_record(record); load_ok is whether reading the
\* records file succeeds.  A dict has no to_dict(): the argument of append
\* is evaluated, and raises, before anything is appended or saved.
save_daily_record(F, record, load_ok) ==
    IF ~load_ok THEN Fail("OSError", F)
    ELSE IF is_dict(record) THEN Fail("AttributeError", F)
    ELSE
        LET saved == [F EXCEPT !.local_records = Append(F.local_records, to_dict(record))]
        IN  generate_feedback(saved, record)

\* DataManager.get_latest_feedback()
get_latest_feedback(F) ==
    IF F.local_feedback # << >>
    THEN F.local_feedback[Len(F.local_feedback)]
    ELSE EmptyDict

(***************************************************************************)
(* Cloud mirror (others/cloud_storage.py, imported by the sync manager as  *)
(* .cloud_storage).  Its methods are plain functions, not coroutines.      *)
(***************************************************************************)
\* the file written with the record alone, not with the loaded list
cloud_save_health_record_overwrites(F, record) ==
    Done(None, [F EXCEPT !.cloud_records = <<record>>])

cloud_save_health_record(F, record) ==
    Done(None, [F EXCEPT !.cloud_records = Append(F.cloud_records, record)])

cloud_save_feedback(F, feedback) ==
    Done(None, [F EXCEPT !.cloud_feedback = Append(F.cloud_feedback, feedback)])

\* `await f(...)` on a plain function: the call runs to completion and
\* returns None, then awaiting None raises TypeError.
await_plain_call(result) ==
    IF result.exc = "none" THEN Fail("TypeError", result.files) ELSE result

(***************************************************************************)
(* Sync manager (utils/sync_manager.py)                                    *)
(***************************************************************************)
\* the exception classes the model raises; all derive from Exception
ExceptionClasses == {"KeyError", "AttributeError", "TypeError", "OSError"}

caught_value_errors_only(exc) == exc \in {"ValueError"}

\* `except Exception as e:`
caught(exc) == exc \in ExceptionClasses

\* SyncManager.sync_feedback(date)
sync_feedback(F, date) ==
    LET feedback == get_latest_feedback(F)
        saved == await_plain_call(cloud_save_feedback(F, feedback))
    IN  IF saved.exc = "none" THEN Done(TRUE, saved.files)
        ELSE IF caught(saved.exc) THEN Done(FALSE, saved.files)
        ELSE saved

Sections == <<"mood", "sleep", "diet", "symptoms", "exercise">>

\* the list `validations` of sync_health_record, for a record that has all
\* five sections
validations(processed_record) ==
    <<validate_mood_data(processed_record.mood),
      validate_sleep_data(processed_record.sleep),
      validate_diet_data(processed_record.diet),
      validate_symptoms_data(processed_record.symptoms),
      validate_exercise_data(processed_record.exercise)>>

\* all(validations)
all(bools) == \A i \in DOMAIN bools : bools[i]

\* The steps after validation: local write, cloud write, feedback sync.
sync_writes(F, processed_record, load_ok) ==
    LET local == save_daily_record(F, processed_record, load_ok)
    IN  IF local.exc # "none" THEN local
        ELSE
          LET cloud == await_plain_call(
                           cloud_save_health_record(local.files, processed_record))
          IN  IF cloud.exc # "none" THEN cloud
              ELSE
                LET fb == sync_feedback(cloud.files, processed_record.date)
                IN  IF fb.exc # "none" THEN fb ELSE Done(TRUE, fb.files)

\* the try block of sync_health_record with the cloud write moved ahead of
\* the validation check
sync_health_record_try_mirrors_first(F, record, load_ok) ==
    IF ~is_dict(record) THEN Fail("TypeError", F)
    ELSE
      CHOOSE result \in
        {LET mirrored == cloud_save_health_record(F, processed_record).files
         IN  IF \E i \in DOMAIN Sections : Sections[i] \notin DOMAIN processed_record
             THEN Fail("KeyError", mirrored)
             ELSE IF ~all(validations(processed_record)) THEN Done(FALSE, mirrored)
             ELSE sync_writes(mirrored, processed_record, load_ok) :
            processed_record \in {process_health_record(record)}} : TRUE

\* The try block of sync_health_record.  `'date' in data` on a dataclass
\* instance raises TypeError; subscripting a missing section KeyError.
sync_health_record_try(F, record, load_ok) ==
    IF ~is_dict(record) THEN Fail("TypeError", F)
    ELSE
      CHOOSE result \in
        {IF \E i \in DOMAIN Sections : Sections[i] \notin DOMAIN processed_record
         THEN Fail("KeyError", F)
         ELSE IF ~all(validations(processed_record)) THEN Done(FALSE, F)
         ELSE sync_writes(F, processed_record, load_ok) :
            processed_record \in {process_health_record(record)}} : TRUE

\* SyncManager.sync_health_record(record)
sync_health_record(F, record, load_ok) ==
    LET tried == sync_health_record_try(F, record, load_ok)
    IN  IF tried.exc = "none" THEN tried
        ELSE IF caught(tried.exc) THEN Done(FALSE, tried.files)
        ELSE tried

(***************************************************************************)
(* SyncSpec: the sync manager and the two stores behind it.  The records   *)
(* handed to sync_health_record deviate from a valid one in at most        *)
(* MaxDeviations sections.                                                 *)
(***************************************************************************)
MaxOps == 2

MaxDeviations == 1

MoodOK ==
    [score |-> 704, triggers |-> ListOf(<<"Weather">>),
     notes |-> <<" ", "o", "k", " ">>]

SleepOK == [hours |-> 750, quality |-> 796, issues |-> ListOf(<< >>)]

DietOK ==
    [meals |-> ListOf(<< >>), water_intake |-> 600,
     supplements |-> ListOf(<<"Calcium">>), notes |-> <<"t", "e", "a", " ">>]

SymptomsOK ==
    [physical |-> [hot_flashes |-> 500], emotional |-> [anxiety |-> 300],
     intensity |-> 500]

ExerciseOK == [type |-> "Walking", duration |-> 3000, intensity |-> "Low"]

Absent == [absent |-> TRUE]

\* per section: the valid value first, then the other values drawn
SectionValues ==
    [mood |-> <<MoodOK,
                [MoodOK EXCEPT !.score = 1004],
                [MoodOK EXCEPT !.score = 1006],
                [MoodOK EXCEPT !.score = 96],
                Restrict(MoodOK, {"score", "triggers"}),
                [MoodOK EXCEPT !.triggers = StrOf("Weather")],
                Absent>>,
     sleep |-> <<SleepOK, [SleepOK EXCEPT !.hours = 2500]>>,
     diet |-> <<DietOK,
                [DietOK EXCEPT !.meals = [type |-> "dict", items |-> << >>]],
                [DietOK EXCEPT !.water_intake = 3100]>>,
     symptoms |-> <<SymptomsOK,
                    [physical |-> [hot_flashes |-> 500],
                     emotional |-> [anxiety |-> 300], notes |-> << >>],
                    [SymptomsOK EXCEPT !.physical.hot_flashes = 1100]>>,
     exercise |-> <<ExerciseOK,
                    [ExerciseOK EXCEPT !.intensity = "Extreme"],
                    Absent>>]

SectionNames == {Sections[i] : i \in DOMAIN Sections}

\* the dict with date d and, for each section, the pick[section]-th value
DictRecord(d, pick) ==
    LET full == [k \in SectionNames \cup {"date"} |->
                    IF k = "date" THEN d ELSE SectionValues[k][pick[k]]]
    IN  Restrict(full, {k \in DOMAIN full : full[k] # Absent})

Picks ==
    {pick \in [SectionNames -> 1..7] :
        /\ \A k \in SectionNames : pick[k] <= Len(SectionValues[k])
        /\ Cardinality({k \in SectionNames : pick[k] # 1}) <= MaxDeviations}

ValidDict(d) == DictRecord(d, [k \in SectionNames |-> 1])

SyncDicts == {DictRecord(strftime(Now), pick) : pick \in Picks}

FlatSymptoms == [hot_flashes |-> 500, anxiety |-> 300]

\* HealthRecord instances handed to DataManager.save_daily_record
HealthRecords ==
    {HealthRecord(strftime(n), MoodOK, SleepOK, DietOK, y, ExerciseOK) :
        n \in {Now - 10, Now}, y \in {SymptomsOK, FlatSymptoms}}

SyncArguments == SyncDicts \cup {CHOOSE h \in HealthRecords : TRUE}

CloudDicts == {ValidDict(strftime(Now - 1)), ValidDict(strftime(Now))}

CurrentFiles == Files(local_records, local_feedback, cloud_records, cloud_feedback)

SetFiles(F) ==
    /\ local_records' = F.local_records
    /\ local_feedback' = F.local_feedback
    /\ cloud_records' = F.cloud_records
    /\ cloud_feedback' = F.cloud_feedback
    /\ UNCHANGED <<local_user_data, cloud_user_data>>

Outcome(result) ==
    IF result.exc = "none" THEN Returned(result.val) ELSE Raised(result.exc)

SyncInit ==
    /\ health_records = << >>
    /\ NoFiles
    /\ call = NoCall
    /\ ret = NoRet
    /\ steps = 0
    /\ writers = << >>

SyncHealthRecord ==
    \E record \in SyncArguments, load_ok \in BOOLEAN :
      \E result \in {sync_health_record(CurrentFiles, record, load_ok)} :
        /\ steps < MaxOps
        /\ SetFiles(result.files)
        /\ call' = [op |-> "sync_health_record", record |-> record,
                    load_ok |-> load_ok]
        /\ ret' = Outcome(result)
        /\ steps' = steps + 1
        /\ UNCHANGED <<health_records, writers>>

SaveDailyRecord ==
    \E record \in HealthRecords :
        LET result == save_daily_record(CurrentFiles, record, TRUE)
        IN  /\ steps < MaxOps
            /\ SetFiles(result.files)
            /\ call' = [op |-> "save_daily_record", record |-> record]
            /\ ret' = Outcome(result)
            /\ steps' = steps + 1
            /\ UNCHANGED <<health_records, writers>>

CloudSaveHealthRecord ==
    \E record \in CloudDicts :
        LET result == cloud_save_health_record(CurrentFiles, record)
        IN  /\ steps < MaxOps
            /\ SetFiles(result.files)
            /\ call' = [op |-> "cloud_storage.save_health_record", record |-> record]
            /\ ret' = Outcome(result)
            /\ steps' = steps + 1
            /\ UNCHANGED <<health_records, writers>>

SyncFeedback ==
    LET result == sync_feedback(CurrentFiles, strftime(Now))
    IN  /\ steps < MaxOps
        /\ SetFiles(result.files)
        /\ call' = [op |-> "sync_feedback"]
        /\ ret' = Outcome(result)
        /\ steps' = steps + 1
        /\ UNCHANGED <<health_records, writers>>

SyncNext ==
    \/ SyncHealthRecord
    \/ SaveDailyRecord
    \/ CloudSaveHealthRecord
    \/ SyncFeedback

SyncSpec == SyncInit /\ [][SyncNext]_vars

(***************************************************************************)
(* Claims about sync_health_record, checked under SyncSpec                 *)
(***************************************************************************)
SyncStep == call'.op = "sync_health_record" /\ steps' = steps + 1

\* some section the record has is rejected by its validator predicate
\* once the record is preprocessed
SomeSectionRejected(record) ==
    /\ "class" \notin DOMAIN record
    /\ LET p == process_health_record(record)
       IN  \/ "mood" \in DOMAIN p /\ ~validate_mood_data(p.mood)
           \/ "sleep" \in DOMAIN p /\ ~validate_sleep_data(p.sleep)
           \/ "diet" \in DOMAIN p /\ ~validate_diet_data(p.diet)
           \/ "symptoms" \in DOMAIN p /\ ~validate_symptoms_data(p.symptoms)
           \/ "exercise" \in DOMAIN p /\ ~validate_exercise_data(p.exercise)

\* the record is a dict with all five sections, each accepted by its
\* validator predicate once the record is preprocessed
PassesAllValidators(record) ==
    /\ "class" \notin DOMAIN record
    /\ SectionNames \subseteq DOMAIN record
    /\ ~SomeSectionRejected(record)

\* C2: whenever a validator predicate rejects the preprocessed record,
\* sync_health_record returns False and none of the four files (local
\* records, local feedback, cloud records, cloud feedback) changes, however
\* many of the other sections are valid.
C2_RejectedRecordWritesNothing ==
    [][(SyncStep /\ SomeSectionRejected(call'.record)) =>
         /\ ret' = Returned(FALSE)
         /\ files' = files]_vars

\* a record whose only invalid section is the mood (score 10.06, rounded to
\* 10.1) was refused while the local store already held a record
C2_Witness ==
    /\ call.op = "sync_health_record"
    /\ call.record = [ValidDict(strftime(Now)) EXCEPT !.mood.score = 1006]
    /\ call.load_ok
    /\ ret = Returned(FALSE)
    /\ local_records # << >>
    /\ local_feedback # << >>

\* C3: a record that passes preprocessing and all five validator predicates
\* (the files being readable) is persisted locally, mirrored to the cloud
\* store, and sync_health_record returns True; afterwards the record is in
\* the local and in the cloud records list.
C3_ValidRecordIsSynced ==
    (call.op = "sync_health_record" /\ PassesAllValidators(call.record)
        /\ call.load_ok) =>
      /\ ret = Returned(TRUE)
      /\ process_health_record(call.record) \in Range(local_records)
      /\ process_health_record(call.record) \in Range(cloud_records)

\* C8: sync_health_record never raises; whenever its try block raises (in
\* preprocessing, validation, the local write, the cloud write or feedback
\* sync) the call returns False.
C8_SyncNeverRaises ==
    [][SyncStep =>
         /\ ret'.exc = "none"
         /\ ret'.val \in BOOLEAN
         /\ (sync_health_record_try(CurrentFiles, call'.record, call'.load_ok).exc
                # "none" => ret'.val = FALSE)]_vars

\* a record without the exercise section: the KeyError became False
C8_Witness ==
    /\ call.op = "sync_health_record"
    /\ DOMAIN call.record = {"date", "mood", "sleep", "diet", "symptoms"}
    /\ ~SomeSectionRejected(call.record)
    /\ ret = Returned(FALSE)

\* C28: a sync_health_record call, at whatever step it fails, leaves every
\* record of the cloud records store present in the local records store
\* when that was so before the call: the cloud mirror never comes to hold a
\* record the local store lacks through sync_health_record.
C28_SyncKeepsCloudWithinLocal ==
    [][(SyncStep /\ Range(cloud_records) \subseteq Range(local_records)) =>
         Range(cloud_records') \subseteq Range(local_records')]_vars

\* a call on a record that passes validation fails in the write step, after
\* an earlier save_daily_record: the local store holds a record, the cloud
\* store none
C28_Witness ==
    /\ call.op = "sync_health_record"
    /\ PassesAllValidators(call.record)
    /\ call.load_ok
    /\ ret = Returned(FALSE)
    /\ steps = 2
    /\ Len(local_records) = 1
    /\ cloud_records = << >>

\* C21: sync_health_record writes locally first, then to the cloud, then
\* syncs the feedback, and rolls nothing back: a call on a record that
\* passed validation, with the local file readable, that returns False has
\* failed in a later step and has left the record in the local store.
C21_LocalWriteSurvivesLaterFailure ==
    [][(SyncStep /\ PassesAllValidators(call'.record) /\ call'.load_ok
            /\ ret' = Returned(FALSE)) =>
         process_health_record(call'.record) \in Range(local_records')]_vars

\* C13: every record saved by save_daily_record gets exactly one feedback
\* entry appended to the feedback list, so that after any sequence of saves
\* there are as many feedback entries as saved records, and appending leaves
\* the entries already in the list as they were.
C13_OneFeedbackPerSavedRecord ==
    [][(call'.op = "save_daily_record" /\ steps' = steps + 1) =>
         /\ Len(local_feedback') - Len(local_feedback)
               = Len(local_records') - Len(local_records)
         /\ Len(local_feedback') = Len(local_records')
         /\ SubSeq(local_feedback', 1, Len(local_feedback)) = local_feedback]_vars

(***************************************************************************)
(* The validator predicates as pure functions: ValidatorSpec draws an      *)
(* argument and applies a predicate to it.                                 *)
(***************************************************************************)
MoodScores ==
    {-100, 0, 50, 99, 100, 101, 110, 700, 990, 999, 1000, 1001, 1010, 1100, 2000}

MoodTriggers == {ListOf(<< >>), ListOf(<<"Weather">>), StrOf("Weather")}

MoodArguments ==
    {Restrict([score |-> s, triggers |-> t, notes |-> << >>], keys) :
        s \in MoodScores, t \in MoodTriggers,
        keys \in SUBSET {"score", "triggers", "notes"}}

\* A mapping (dict) value, as the sequence of its <<key, value>> items.
DictOf(items) == [type |-> "dict", items |-> items]

\* Records as the data model documents them and as collect_form_data of the
\* daily-input page builds them (diet.meals a mapping from meal name to
\* {categories, notes}; symptoms with physical, emotional and notes), with
\* the scored fields drawn from inside their documented bounds.
DocumentedRecords ==
    {[date |-> strftime(Now),
      mood |-> [score |-> ms, triggers |-> ListOf(<<"Weather">>), notes |-> << >>],
      sleep |-> [quality |-> sq, hours |-> sh, issues |-> ListOf(<< >>)],
      diet |-> [meals |-> DictOf(<<<<"breakfast",
                                      [categories |-> ListOf(<<"Fruits">>),
                                       notes |-> << >>]>>>>),
                water_intake |-> wi, supplements |-> ListOf(<<"Calcium">>)],
      symptoms |-> [physical |-> [hot_flashes |-> si],
                    emotional |-> [anxiety |-> 300], notes |-> << >>],
      exercise |-> [type |-> "Walking", duration |-> du, intensity |-> ei]] :
        ms \in {100, 700, 1000}, sq \in {100, 1000}, sh \in {0, 2400},
        wi \in {0, 3000}, si \in {0, 1000}, du \in {0, 30000},
        ei \in {"Low", "Moderate", "High"}}

ValidatorInit ==
    /\ health_records = << >>
    /\ NoFiles
    /\ call \in {[op |-> "argument", data |-> d] : d \in MoodArguments}
               \cup {[op |-> "record", record |-> r] : r \in DocumentedRecords}
    /\ ret = NoRet
    /\ steps = 0
    /\ writers = << >>

ValidateMoodData ==
    /\ call.op = "argument"
    /\ call' = [op |-> "validate_mood_data", data |-> call.data]
    /\ ret' = Returned(validate_mood_data(call.data))
    /\ UNCHANGED <<health_records, files, steps, writers>>

\* the five validator predicates applied to the sections of one record, in
\* the order sync_health_record applies them
ValidateSections ==
    /\ call.op = "record"
    /\ call' = [op |-> "validations", record |-> call.record]
    /\ ret' = Returned(validations(call.record))
    /\ UNCHANGED <<health_records, files, steps, writers>>

ValidatorNext == ValidateMoodData \/ ValidateSections

ValidatorSpec == ValidatorInit /\ [][ValidatorNext]_vars

\* C10: on mood data that has all three required fields and a list of
\* triggers, validate_mood_data accepts exactly the scores of the closed
\* range 1..10 (100..1000 hundredths): 1 and 10 are accepted, 0 and 11 and
\* everything outside the range rejected.
C10_MoodScoreRangeInclusive ==
    (call.op = "validate_mood_data"
        /\ {"score", "triggers", "notes"} \subseteq DOMAIN call.data
        /\ call.data.triggers.type = "list") =>
      /\ ret.exc = "none"
      /\ ret.val = (call.data.score >= 100 /\ call.data.score <= 1000)
      /\ (call.data.score \in {100, 1000} => ret.val = TRUE)
      /\ (call.data.score \in {0, 1100} => ret.val = FALSE)

\* the upper boundary score 10 with a list of triggers has been accepted
C10_Witness ==
    /\ call.op = "validate_mood_data"
    /\ {"score", "triggers", "notes"} \subseteq DOMAIN call.data
    /\ call.data.triggers = ListOf(<<"Weather">>)
    /\ call.data.score = 1000
    /\ ret = Returned(TRUE)

\* C11: a record that carries exactly the fields of the documented data
\* model, with every scored field within its documented bounds, is accepted
\* by all five validator predicates.
C11_DocumentedRecordAccepted ==
    call.op = "validations" => all(ret.val)

(***************************************************************************)
(* The merge helpers of the sync manager as pure functions: MergeSpec      *)
(* draws the two arguments and applies a helper to them.                   *)
(***************************************************************************)
MaxList == 2

\* d[k] = v on a dict kept as the sequence of its <<key, value>> items in
\* insertion order: an existing key keeps its place and takes the new value
dict_set(items, k, v) ==
    IF \E i \in DOMAIN items : items[i][1] = k
    THEN [i \in DOMAIN items |-> IF items[i][1] = k THEN <<k, v>> ELSE items[i]]
    ELSE Append(items, <<k, v>>)

RECURSIVE dict_by_date(_, _)
\* {record["date"]: record for record in records}, continued from `items`
dict_by_date(items, records) ==
    IF records = << >> THEN items
    ELSE dict_by_date(dict_set(items, Head(records).date, Head(records)),
                      Tail(records))

\* list(d.values())
dict_values(items) == [i \in DOMAIN items |-> items[i][2]]

_merge_records_local_last(local_records_, cloud_records_) ==
    IF \E r \in Range(local_records_ \o cloud_records_) : "date" \notin DOMAIN r
    THEN Raised("KeyError")
    ELSE Returned(dict_values(dict_by_date(<< >>, cloud_records_ \o local_records_)))

\* the two lists joined, with no dict in between
_merge_records_concatenates(local_records_, cloud_records_) ==
    IF \E r \in Range(local_records_ \o cloud_records_) : "date" \notin DOMAIN r
    THEN Raised("KeyError")
    ELSE Returned(local_records_ \o cloud_records_)

\* SyncManager._merge_records(local_records, cloud_records)
_merge_records(local_records_, cloud_records_) ==
    LET all_records == local_records_ \o cloud_records_
    IN  IF \E r \in Range(all_records) : "date" \notin DOMAIN r
        THEN Raised("KeyError")
        ELSE Returned(dict_values(dict_by_date(<< >>, all_records)))

_get_latest_feedback_cloud_first(local_feedback_, cloud_feedback_) ==
    IF cloud_feedback_ = << >> THEN Returned(local_feedback_)
    ELSE Returned(cloud_feedback_[Len(cloud_feedback_)])

\* the later candidate, the cloud one when the dates are equal
_get_latest_feedback_cloud_on_tie(local_feedback_, cloud_feedback_) ==
    IF cloud_feedback_ = << >> THEN Returned(local_feedback_)
    ELSE IF local_feedback_ = EmptyDict
    THEN Returned(cloud_feedback_[Len(cloud_feedback_)])
    ELSE
        LET cloud_latest == cloud_feedback_[Len(cloud_feedback_)]
        IN  IF "date" \notin DOMAIN local_feedback_ \/ "date" \notin DOMAIN cloud_latest
            THEN Raised("KeyError")
            ELSE IF to_datetime(cloud_latest.date) >= to_datetime(local_feedback_.date)
            THEN Returned(cloud_latest)
            ELSE Returned(local_feedback_)

\* SyncManager._get_latest_feedback(local_feedback, cloud_feedback); max()
\* returns the first of the candidates with the greatest key
_get_latest_feedback(local_feedback_, cloud_feedback_) ==
    IF cloud_feedback_ = << >> THEN Returned(local_feedback_)
    ELSE IF local_feedback_ = EmptyDict
    THEN Returned(cloud_feedback_[Len(cloud_feedback_)])
    ELSE
        LET cloud_latest == cloud_feedback_[Len(cloud_feedback_)]
        IN  IF "date" \notin DOMAIN local_feedback_ \/ "date" \notin DOMAIN cloud_latest
            THEN Raised("KeyError")
            ELSE IF to_datetime(cloud_latest.date) > to_datetime(local_feedback_.date)
            THEN Returned(cloud_latest)
            ELSE Returned(local_feedback_)

MergeRecords ==
    {[date |-> d, mood |-> [score |-> x]] :
        d \in {<<2024, 1, 1>>, <<2024, 1, 2>>}, x \in {300, 800}}

\* feedback entries; the cloud list may also hold the {} that sync_feedback
\* mirrors while the local feedback history is empty
Feedbacks ==
    {[date |-> d, analysis |-> [recommendations |-> rec]] :
        d \in {<<2024, 1, 31>>, <<2024, 2, 1>>},
        rec \in {<< >>, <<"Schedule a check-up with your healthcare provider">>}}

MergeInit ==
    /\ health_records = << >>
    /\ NoFiles
    /\ \/ \E l \in SeqsUpTo(MergeRecords, MaxList), c \in SeqsUpTo(MergeRecords, MaxList) :
            call = [op |-> "arguments", of |-> "_merge_records",
                    local |-> l, cloud |-> c]
       \/ \E l \in Feedbacks \cup {EmptyDict},
             c \in SeqsUpTo(Feedbacks \cup {EmptyDict}, MaxList) :
            call = [op |-> "arguments", of |-> "_get_latest_feedback",
                    local |-> l, cloud |-> c]
    /\ ret = NoRet
    /\ steps = 0
    /\ writers = << >>

MergeRecordsCall ==
    /\ call.op = "arguments" /\ call.of = "_merge_records"
    /\ call' = [call EXCEPT !.op = "_merge_records"]
    /\ ret' = _merge_records(call.local, call.cloud)
    /\ UNCHANGED <<health_records, files, steps, writers>>

GetLatestFeedbackCall ==
    /\ call.op = "arguments" /\ call.of = "_get_latest_feedback"
    /\ call' = [call EXCEPT !.op = "_get_latest_feedback"]
    /\ ret' = _get_latest_feedback(call.local, call.cloud)
    /\ UNCHANGED <<health_records, files, steps, writers>>

MergeNext == MergeRecordsCall \/ GetLatestFeedbackCall

MergeSpec == MergeInit /\ [][MergeNext]_vars

DatesOf(records) == {r.date : r \in Range(records)}

\* the last record of `records` dated d
LastDated(records, d) ==
    LET i == CHOOSE j \in DOMAIN records :
                 /\ records[j].date = d
                 /\ \A k \in DOMAIN records : records[k].date = d => k <= j
    IN  records[i]

\* C4: _merge_records returns one record per date; for a date present in
\* both lists it is the cloud-side record, for a date present in one list
\* only it is that list's record; a local record of a shared date (unless
\* the cloud holds the very same record) is not in the result.
C4_MergeTakesCloudOnSharedDate ==
    (call.op = "_merge_records") =>
      LET local == call.local
          cloud == call.cloud
          result == ret.val
      IN  /\ ret.exc = "none"
          /\ DatesOf(result) = DatesOf(local) \cup DatesOf(cloud)
          /\ \A i, j \in DOMAIN result : result[i].date = result[j].date => i = j
          /\ \A r \in Range(result) :
                IF r.date \in DatesOf(cloud)
                THEN r = LastDated(cloud, r.date)
                ELSE r = LastDated(local, r.date)
          /\ \A l \in Range(local) :
                (l.date \in DatesOf(cloud) /\ l \notin Range(cloud))
                    => l \notin Range(result)

\* both lists hold 2024-01-01 with different values, the local list also a
\* date of its own: the merge holds the cloud value and the local-only date
C4_Witness ==
    /\ call.op = "_merge_records"
    /\ call.local = <<[date |-> <<2024, 1, 1>>, mood |-> [score |-> 300]],
                      [date |-> <<2024, 1, 2>>, mood |-> [score |-> 300]]>>
    /\ call.cloud = <<[date |-> <<2024, 1, 1>>, mood |-> [score |-> 800]]>>
    /\ ret = Returned(<<[date |-> <<2024, 1, 1>>, mood |-> [score |-> 800]],
                        [date |-> <<2024, 1, 2>>, mood |-> [score |-> 300]]>>)

\* C30: when the local feedback and the last cloud feedback carry the same
\* date, _get_latest_feedback returns the local one, whereas _merge_records
\* given the same two entries, one on each side, returns the cloud one; and
\* a _merge_records call returns, for every date present on both sides, a
\* cloud record.  The two helpers resolve a tie in opposite directions.
C30_TiesResolveInOppositeDirections ==
    /\ (/\ call.op = "_get_latest_feedback"
        /\ call.local # EmptyDict
        /\ call.cloud # << >>
        /\ call.cloud[Len(call.cloud)] # EmptyDict
        /\ call.cloud[Len(call.cloud)].date = call.local.date)
       =>
       (/\ ret = Returned(call.local)
        /\ _merge_records(<<call.local>>, <<call.cloud[Len(call.cloud)]>>)
              = Returned(<<call.cloud[Len(call.cloud)]>>))
    /\ (call.op = "_merge_records") =>
          \A r \in Range(ret.val) :
              r.date \in DatesOf(call.local) \cap DatesOf(call.cloud)
                  => r \in Range(call.cloud)

\* a local feedback and a last cloud feedback of 2024-02-01 that differ in
\* their recommendations: the local one is returned
C30_Witness ==
    /\ call.op = "_get_latest_feedback"
    /\ call.local # EmptyDict
    /\ call.local.date = <<2024, 2, 1>>
    /\ Len(call.cloud) = 1
    /\ call.cloud[1] # EmptyDict
    /\ call.cloud[1].date = <<2024, 2, 1>>
    /\ call.cloud[1] # call.local
    /\ ret = Returned(call.local)
    /\ _merge_records(<<call.local>>, call.cloud) = Returned(call.cloud)

\* C26: the feedback _get_latest_feedback returns has the latest date among
\* the local feedback and all the entries of the cloud list, whatever the
\* order of the cloud list (the candidates being dated feedback entries, at
\* least one of them present).
C26_LatestAmongAllCloudEntries ==
    (/\ call.op = "_get_latest_feedback"
     /\ \A f \in Range(call.cloud) : "date" \in DOMAIN f
     /\ call.local = EmptyDict => call.cloud # << >>)
    =>
    (/\ ret.exc = "none"
     /\ \A f \in Range(call.cloud) \cup ({call.local} \ {EmptyDict}) :
           to_datetime(ret.val.date) >= to_datetime(f.date))

\* C25: the list _merge_records returns holds each date at most once, and
\* its dates are those of the local list and of the cloud list together,
\* also when one of the two lists alone holds a date twice.
C25_MergedDatesAreUnique ==
    (call.op = "_merge_records") =>
        /\ ret.exc = "none"
        /\ Cardinality(DatesOf(ret.val)) = Len(ret.val)
        /\ DatesOf(ret.val) = DatesOf(call.local \o call.cloud)

\* the local list alone holds 2024-01-01 twice and the cloud list another
\* date: the merge holds two records
C25_Witness ==
    /\ call.op = "_merge_records"
    /\ call.local = <<[date |-> <<2024, 1, 1>>, mood |-> [score |-> 300]],
                      [date |-> <<2024, 1, 1>>, mood |-> [score |-> 800]]>>
    /\ call.cloud = <<[date |-> <<2024, 1, 2>>, mood |-> [score |-> 300]]>>
    /\ Len(ret.val) = 2

MaxTokens == 3

\* the opening marker, three backquotes followed by json
FenceJson == [tok |-> "fence_json"]

\* the closing marker, three backquotes
Fence == [tok |-> "fence"]

Prose == [tok |-> "prose"]

Json(kind, strings) == [tok |-> "json", kind |-> kind, strings |-> strings]

\* the value json.loads gives for a JSON token
json_value(token) ==
    CASE token.kind = "daily" ->
           [type |-> "dict",
            members |-> [today_insights |-> ListOf(<<token.strings[1]>>),
                         recommendations |-> ListOf(<<token.strings[2]>>)]]
      [] token.kind = "daily_no_lists" ->
           [type |-> "dict",
            members |-> [today_insights |-> StrOf(token.strings[1])]]
      [] token.kind = "dashboard" ->
           [type |-> "dict",
            members |-> [overall_assessment |-> [period_summary |-> token.strings[1]],
                         component_insights |-> [mood |-> [status |-> token.strings[2]]]]]
      [] token.kind = "array" ->
           [type |-> "list", items |-> token.strings]

\* text.startswith(FENCE + 'json')
startswith_fence_json(text) == text # << >> /\ text[1] = FenceJson

\* text.endswith(FENCE)
endswith_fence(text) == text # << >> /\ text[Len(text)] = Fence

RECURSIVE UpToFenceJson(_)
\* the tokens before the first opening marker
UpToFenceJson(text) ==
    IF text = << >> \/ Head(text) = FenceJson THEN << >>
    ELSE <<Head(text)>> \o UpToFenceJson(Tail(text))

\* text.split(FENCE + 'json')[1], for a text that starts with the marker
split_fence_json_1(text) == UpToFenceJson(Tail(text))

\* text.rsplit(FENCE, 1)[0], for a text that ends with the marker
rsplit_fence_0(text) == SubSeq(text, 1, Len(text) - 1)

\* only the opening marker is taken off
strip_fences_opening_only(text) ==
    IF startswith_fence_json(text) THEN split_fence_json_1(text) ELSE text

strip_fences(text) ==
    LET t1 == IF startswith_fence_json(text) THEN split_fence_json_1(text) ELSE text
    IN  IF endswith_fence(t1) THEN rsplit_fence_0(t1) ELSE t1

IsPrefix(p, text) == Len(p) <= Len(text) /\ SubSeq(text, 1, Len(p)) = p

RECURSIVE replace(_, _, _)
\* str.replace(old, new) on a tuple of characters
replace(text, old, new) ==
    IF text = << >> THEN << >>
    ELSE IF IsPrefix(old, text)
    THEN new \o replace(SubSeq(text, Len(old) + 1, Len(text)), old, new)
    ELSE <<Head(text)>> \o replace(Tail(text), old, new)

\* the four replacements analyze_dashboard_data applies before parsing
clean_chars(chars) ==
    LET c1 == replace(chars, <<".", " ", " ">>, <<".", " ">>)
        c2 == replace(c1, <<".", ".", ".">>, <<".">>)
        c3 == replace(c2, <<".", " ">>, <<".">>)
    IN  replace(c3, <<",", " ", " ">>, <<",", " ">>)

\* The replacements reach the text of the string literals; the tokens drawn
\* hold none of the replaced sequences outside them.
clean_text(text) ==
    [i \in DOMAIN text |->
        IF text[i].tok = "json"
        THEN [text[i] EXCEPT !.strings =
                 [j \in DOMAIN text[i].strings |-> clean_chars(text[i].strings[j])]]
        ELSE text[i]]

\* json.loads: the text must be exactly one JSON value
json_loads(text) ==
    IF Len(text) = 1 /\ text[1].tok = "json"
    THEN Returned(json_value(text[1]))
    ELSE Raised("JSONDecodeError")

\* str.lower() on the module names drawn
lower(str) ==
    CASE str = "Mood" -> "mood"
      [] str = "Diet" -> "diet"
      [] OTHER -> str

\* d[k] = v on a dict kept as a record
with_key(d, k, v) == [x \in DOMAIN d \cup {k} |-> IF x = k THEN v ELSE d[x]]

_get_default_module_response_generic(module_type) ==
    [today_insights |-> ListOf(<<"Continue monitoring your health metrics",
                                 "Track any significant changes">>),
     recommendations |-> ListOf(<<"Maintain regular health tracking",
                                  "Follow your usual health routines",
                                  "Consult healthcare provider if needed">>)]

_get_default_module_response(module_type) ==
    CASE module_type = "mood" ->
           [today_insights |-> ListOf(<<"Continue monitoring your mood patterns",
                                        "Track any significant mood changes">>),
            recommendations |-> ListOf(<<"Maintain regular mood tracking",
                                         "Practice stress management techniques",
                                         "Seek support when needed">>)]
      [] module_type = "sleep" ->
           [today_insights |-> ListOf(<<"Keep monitoring your sleep patterns",
                                        "Note any sleep disruptions">>),
            recommendations |-> ListOf(<<"Maintain consistent sleep schedule",
                                         "Create a relaxing bedtime routine",
                                         "Monitor sleep environment">>)]
      [] module_type = "symptoms" ->
           [today_insights |-> ListOf(<<"Continue tracking symptom intensity",
                                        "Monitor symptom patterns">>),
            recommendations |-> ListOf(<<"Record any new symptoms",
                                         "Track symptom triggers",
                                         "Discuss persistent symptoms with healthcare provider">>)]
      [] module_type = "diet" ->
           [today_insights |-> ListOf(<<"Monitor your eating patterns",
                                        "Track nutritional intake">>),
            recommendations |-> ListOf(<<"Maintain balanced nutrition",
                                         "Stay hydrated throughout the day",
                                         "Consider regular meal timing">>)]
      [] OTHER ->
           [today_insights |-> ListOf(<<"Continue monitoring your health metrics",
                                        "Track any significant changes">>),
            recommendations |-> ListOf(<<"Maintain regular health tracking",
                                         "Follow your usual health routines",
                                         "Consult healthcare provider if needed">>)]

default_component(status, review, goals, strategy, recs) ==
    [status |-> status, level |-> "moderate", quick_review |-> review,
     short_term_goals |-> goals, long_term_strategy |-> strategy,
     recommendations |-> recs]

_get_default_dashboard_response(period) ==
    [overall_assessment |->
        [health_score |-> "70",
         period_summary |-> "Based on available data, overall health metrics indicate moderate stability with room for improvement",
         trend |-> "+2 points from previous period",
         score_explanation |-> "Score calculated from: 40% mood metrics, 30% sleep quality, 30% symptom management"],
     component_insights |->
        [mood |-> default_component("Analysis unavailable",
                     "Unable to analyze patterns",
                     <<"Continue daily mood tracking", "Record mood triggers">>,
                     <<"Establish consistent tracking routine", "Develop coping mechanisms">>,
                     <<"Maintain regular mood monitoring", "Practice basic self-care">>),
         sleep |-> default_component("Analysis unavailable",
                     "Unable to analyze sleep patterns",
                     <<"Track sleep schedule daily", "Note sleep disruptions">>,
                     <<"Work toward consistent sleep routine", "Monitor sleep environment factors">>,
                     <<"Maintain regular sleep schedule", "Basic sleep hygiene practices">>),
         symptoms |-> default_component("Analysis unavailable",
                     "Unable to analyze symptom patterns",
                     <<"Track symptoms daily", "Record potential triggers">>,
                     <<"Build symptom management routine", "Identify pattern correlations">>,
                     <<"Continue symptom monitoring", "Basic symptom management steps">>)]]

\* What self.model.generate_content(prompt) followed by response.text does:
\* the call raises (network, quota), or the response has no text part and
\* response.text raises ValueError, or there is a reply text.
TransportError == [kind |-> "raises"]

NoTextPart == [kind |-> "blocked"]

Reply(text) == [kind |-> "text", text |-> text]

\* An insight result: what is returned or raised, and the number of
\* generate_content calls made.
Insight(outcome, n) ==
    IF outcome.exc = "none"
    THEN [exc |-> "none", val |-> outcome.val, api_calls |-> n]
    ELSE [exc |-> outcome.exc, api_calls |-> n]

\* data.get('module_type', '')
module_type_of(data) ==
    IF "module_type" \in DOMAIN data THEN data.module_type ELSE StrOf("")

\* the two lists added only where the key is missing
force_lists_missing_only(members) ==
    LET m1 == IF "today_insights" \in DOMAIN members
              THEN members
              ELSE with_key(members, "today_insights", ListOf(<< >>))
    IN  IF "recommendations" \in DOMAIN m1
        THEN m1
        ELSE with_key(m1, "recommendations", ListOf(<< >>))

\* the lists analyze_daily_input forces onto the parsed object
force_lists(members) ==
    LET m1 == IF "today_insights" \in DOMAIN members
                 /\ isinstance_list(members.today_insights)
              THEN members
              ELSE with_key(members, "today_insights", ListOf(<< >>))
    IN  IF "recommendations" \in DOMAIN m1 /\ isinstance_list(m1.recommendations)
        THEN m1
        ELSE with_key(m1, "recommendations", ListOf(<< >>))

\* The try block of analyze_daily_input, from the generate_content call on,
\* for a module_type that is already bound.
analyze_daily_input_try(module_type, reply) ==
    IF reply.kind = "raises" THEN Insight(Raised("TransportError"), 1)
    ELSE IF reply.kind = "blocked" THEN Insight(Raised("ValueError"), 1)
    ELSE
        LET parsed == json_loads(strip_fences(reply.text))
        IN  IF parsed.exc = "JSONDecodeError"
            THEN Insight(Returned(_get_default_module_response(module_type)), 1)
            ELSE IF parsed.val.type # "dict"
            THEN Insight(Raised("AttributeError"), 1)
            ELSE Insight(Returned(force_lists(parsed.val.members)), 1)

analyze_daily_input_unguarded(data, reply) ==
    IF module_type_of(data).type # "str" THEN Insight(Raised("AttributeError"), 0)
    ELSE analyze_daily_input_try(lower(module_type_of(data).text), reply)

\* GeminiAPI.analyze_daily_input(data).  When .lower() itself raises,
\* module_type is unbound in the handler, whose print then raises
\* UnboundLocalError.
analyze_daily_input(data, reply) ==
    IF module_type_of(data).type # "str"
    THEN Insight(Raised("UnboundLocalError"), 0)
    ELSE
        LET module_type == lower(module_type_of(data).text)
            tried == analyze_daily_input_try(module_type, reply)
        IN  IF tried.exc = "none" THEN tried
            ELSE Insight(Returned(_get_default_module_response(module_type)),
                         tried.api_calls)

\* analyze_dashboard_data with one more generate_content call, which gets
\* the same outcome, after a failed call or an unparseable reply
analyze_dashboard_data_retries(data, period, reply) ==
    IF reply.kind \in {"raises", "blocked"}
    THEN Insight(Returned(_get_default_dashboard_response(period)), 2)
    ELSE
        LET parsed == json_loads(clean_text(strip_fences(reply.text)))
        IN  IF parsed.exc = "JSONDecodeError"
            THEN Insight(Returned(_get_default_dashboard_response(period)), 2)
            ELSE Insight(Returned(parsed.val), 1)

\* GeminiAPI.analyze_dashboard_data(data, period)
analyze_dashboard_data(data, period, reply) ==
    IF reply.kind \in {"raises", "blocked"}
    THEN Insight(Returned(_get_default_dashboard_response(period)), 1)
    ELSE
        LET parsed == json_loads(clean_text(strip_fences(reply.text)))
        IN  IF parsed.exc = "JSONDecodeError"
            THEN Insight(Returned(_get_default_dashboard_response(period)), 1)
            ELSE Insight(Returned(parsed.val), 1)

(***************************************************************************)
(* InsightSpec draws a payload and what the external call does, and        *)
(* applies one of the two operations.                                      *)
(***************************************************************************)
Chars(n) ==
    CASE n = 1 -> <<"O", "k", ".", " ", "G", "o">>
      [] n = 2 -> <<"R", "e", "s", "t">>

Tokens ==
    {FenceJson, Fence, Prose,
     Json("daily", <<Chars(1), Chars(2)>>),
     Json("daily_no_lists", <<Chars(2)>>),
     Json("dashboard", <<Chars(1), Chars(2)>>),
     Json("array", <<Chars(2)>>)}

Replies ==
    {TransportError, NoTextPart} \cup {Reply(t) : t \in SeqsUpTo(Tokens, MaxTokens)}

ModuleTypes ==
    {StrOf(m) : m \in {"mood", "sleep", "symptoms", "diet", "Mood", "Diet", "exercise"}}
        \cup {None}

\* the payloads: with a module_type (pages/1_Daily_Input.py) or without one
\* (pages/2_Feedback.py)
DailyPayloads ==
    {[module_type |-> m, current_data |-> EmptyDict, historical_data |-> << >>] :
        m \in ModuleTypes}
    \cup {[current_data |-> EmptyDict, historical_data |-> << >>,
           analysis_type |-> "historical"]}

DashboardPayload ==
    [current_data |-> EmptyDict, historical_data |-> << >>, metrics |-> EmptyDict]

InsightInit ==
    /\ health_records = << >>
    /\ NoFiles
    /\ \/ \E d \in DailyPayloads, r \in Replies :
            call = [op |-> "arguments", of |-> "analyze_daily_input",
                    data |-> d, reply |-> r]
       \/ \E period \in {"week", "month"}, r \in Replies :
            call = [op |-> "arguments", of |-> "analyze_dashboard_data",
                    data |-> DashboardPayload, period |-> period, reply |-> r]
    /\ ret = NoRet
    /\ steps = 0
    /\ writers = << >>

AnalyzeDailyInput ==
    /\ call.op = "arguments" /\ call.of = "analyze_daily_input"
    /\ call' = [call EXCEPT !.op = "analyze_daily_input"]
    /\ ret' = analyze_daily_input(call.data, call.reply)
    /\ UNCHANGED <<health_records, files, steps, writers>>

AnalyzeDashboardData ==
    /\ call.op = "arguments" /\ call.of = "analyze_dashboard_data"
    /\ call' = [call EXCEPT !.op = "analyze_dashboard_data"]
    /\ ret' = analyze_dashboard_data(call.data, call.period, call.reply)
    /\ UNCHANGED <<health_records, files, steps, writers>>

InsightNext == AnalyzeDailyInput \/ AnalyzeDashboardData

InsightSpec == InsightInit /\ [][InsightNext]_vars

(***************************************************************************)
(* Claims about the insight client, checked under InsightSpec              *)
(***************************************************************************)
\* there is a reply text and json.loads rejects what is left of it
DailyParseFails(reply) ==
    /\ reply.kind = "text"
    /\ json_loads(strip_fences(reply.text)).exc = "JSONDecodeError"

DashboardParseFails(reply) ==
    /\ reply.kind = "text"
    /\ json_loads(clean_text(strip_fences(reply.text))).exc = "JSONDecodeError"

\* the first recommendation of each static fallback (gemini_api.py, lines
\* 305, 316, 327, 338 and 351)
FirstFallbackRecommendation(module_type) ==
    CASE module_type = "mood" -> "Maintain regular mood tracking"
      [] module_type = "sleep" -> "Maintain consistent sleep schedule"
      [] module_type = "symptoms" -> "Record any new symptoms"
      [] module_type = "diet" -> "Maintain balanced nutrition"
      [] OTHER -> "Maintain regular health tracking"

\* C6: when the reply fails JSON parsing, analyze_daily_input returns
\* exactly the static fallback object of the request's (lower-cased) module
\* type, the generic one for any type other than mood, sleep, symptoms and
\* diet, and the recommendations of that object are not empty.
C6_ParseFailureGivesModuleFallback ==
    (call.op = "analyze_daily_input" /\ module_type_of(call.data).type = "str"
        /\ DailyParseFails(call.reply)) =>
      LET module_type == lower(module_type_of(call.data).text)
      IN  /\ ret.exc = "none"
          /\ ret.val = _get_default_module_response(module_type)
          /\ DOMAIN ret.val = {"today_insights", "recommendations"}
          /\ Len(ret.val.recommendations.items) = 3
          /\ ret.val.recommendations.items[1] = FirstFallbackRecommendation(module_type)

\* a Mood request answered by fenced prose got the mood fallback
C6_Witness ==
    /\ call.op = "analyze_daily_input"
    /\ "module_type" \in DOMAIN call.data
    /\ call.data.module_type = StrOf("Mood")
    /\ call.reply = Reply(<<FenceJson, Prose, Fence>>)
    /\ ret.exc = "none"
    /\ ret.val.recommendations.items[1] = "Maintain regular mood tracking"

\* C7: a transport error of the external call (or a response without text)
\* and a parse error of the reply are both replaced by the static default
\* response: neither operation raises, and the object returned is the
\* default of the module type, respectively the dashboard default, in the
\* one case as in the other.
C7_ExternalFailureIsMasked ==
    /\ (call.op = "analyze_daily_input" /\ module_type_of(call.data).type = "str"
          /\ (call.reply.kind \in {"raises", "blocked"} \/ DailyParseFails(call.reply)))
        => /\ ret.exc = "none"
           /\ ret.val = _get_default_module_response(
                            lower(module_type_of(call.data).text))
    /\ (call.op = "analyze_dashboard_data"
          /\ (call.reply.kind \in {"raises", "blocked"}
                \/ DashboardParseFails(call.reply)))
        => /\ ret.exc = "none"
           /\ ret.val = _get_default_dashboard_response(call.period)

\* a sleep request whose external call raised got the sleep fallback
C7_Witness ==
    /\ call.op = "analyze_daily_input"
    /\ "module_type" \in DOMAIN call.data
    /\ call.data.module_type = StrOf("sleep")
    /\ call.reply = TransportError
    /\ ret.exc = "none"
    /\ ret.val.recommendations.items[1] = "Maintain consistent sleep schedule"

HasDashboardShape(v) ==
    IF "type" \in DOMAIN v
    THEN /\ v.type = "dict"
         /\ {"overall_assessment", "component_insights"} \subseteq DOMAIN v.members
    ELSE {"overall_assessment", "component_insights"} \subseteq DOMAIN v

\* C15: whatever the external call does, analyze_dashboard_data returns an
\* object of the fixed dashboard shape, with overall_assessment and
\* component_insights both present.
C15_DashboardResultHasFixedShape ==
    call.op = "analyze_dashboard_data" =>
      /\ ret.exc = "none"
      /\ HasDashboardShape(ret.val)

\* the external call did not give a reply the operation can parse
ExternalCallFailed ==
    \/ call.reply.kind # "text"
    \/ call.op = "analyze_daily_input" /\ DailyParseFails(call.reply)
    \/ call.op = "analyze_dashboard_data" /\ DashboardParseFails(call.reply)

\* C17: one insight request makes at most one generate_content call; after
\* a failed call or an unparseable reply the fallback is returned with no
\* second call having been made.
C17_AtMostOneExternalCall ==
    call.op \in {"analyze_daily_input", "analyze_dashboard_data"} =>
      /\ ret.api_calls <= 1
      /\ (ExternalCallFailed /\ ret.exc = "none") => ret.api_calls = 1

\* a dashboard request whose reply did not parse returned the default after
\* its one call
C17_Witness ==
    /\ call.op = "analyze_dashboard_data"
    /\ DashboardParseFails(call.reply)
    /\ ret.exc = "none"
    /\ ret.val = _get_default_dashboard_response(call.period)
    /\ ret.api_calls = 1

\* the reply is one structured-data block between the opening and the
\* closing marker
FencedBlock(reply) ==
    /\ reply.kind = "text"
    /\ Len(reply.text) = 3
    /\ reply.text[1] = FenceJson
    /\ reply.text[2].tok = "json"
    /\ reply.text[3] = Fence

\* C19: a reply whose structured-data block is wrapped in the fence markers
\* gives, in analyze_daily_input and in analyze_dashboard_data, the result
\* the same block gives when sent without the markers.
C19_FencedBlockParsesLikeBare ==
    (call.op \in {"analyze_daily_input", "analyze_dashboard_data"}
        /\ FencedBlock(call.reply)) =>
      LET bare == Reply(<<call.reply.text[2]>>)
      IN  IF call.op = "analyze_daily_input"
          THEN ret = analyze_daily_input(call.data, bare)
          ELSE ret = analyze_dashboard_data(call.data, call.period, bare)

\* a fenced object with both lists came back from analyze_daily_input as
\* the object itself
C19_Witness ==
    /\ call.op = "analyze_daily_input"
    /\ FencedBlock(call.reply)
    /\ call.reply.text[2] = Json("daily", <<Chars(1), Chars(2)>>)
    /\ ret.exc = "none"
    /\ ret.val = [today_insights |-> ListOf(<<Chars(1)>>),
                  recommendations |-> ListOf(<<Chars(2)>>)]

(***************************************************************************)
(* Claims about the Record Store, checked under Spec                       *)
(***************************************************************************)
\* C1: after every add_health_record call the store holds at most 30
\* records; when the appended list is longer than 30 exactly its front
\* (earliest inserted) records are dropped, and the 30 kept are the tail of
\* the appended list, in order, with the new record last.
C1_CapAndOldestFirstEviction ==
    [][(call'.op = "add_health_record" /\ steps' = steps + 1) =>
         LET appended == Append(health_records, call'.record)
             n == Len(health_records')
         IN  /\ n <= 30
             /\ n = (IF Len(appended) > 30 THEN 30 ELSE Len(appended))
             /\ \A i \in 1..n :
                    health_records'[i] = appended[Len(appended) - n + i]
             /\ health_records'[n] = call'.record]_vars

\* Two adds on the seeded store: the first dropped two records, the second
\* one, and the record just added is the last of the 30 kept.
C1_Witness ==
    /\ call.op = "add_health_record"
    /\ steps = 2
    /\ Len(health_records) = 30
    /\ health_records[1].date = strftime(Now - SeedDays + 3)
    /\ health_records[30] = call.record
    /\ health_records[29].date \in AddDates

MaxStoredDate ==
    CHOOSE m \in {to_datetime(health_records[i].date) : i \in DOMAIN health_records} :
        \A i \in DOMAIN health_records : to_datetime(health_records[i].date) <= m

\* indexes of the stored records dated within `days` days of the maximum
InWindowIdx(days) ==
    {i \in DOMAIN health_records :
        to_datetime(health_records[i].date) >= MaxStoredDate - days}

SameRecord(row, record) ==
    /\ row.date = record.date
    /\ row.mood = record.mood
    /\ row.sleep = record.sleep

\* C5: on a non-empty store get_data_for_period returns exactly the stored
\* records dated >= (maximum stored date - 6 days) for 'week' and
\* >= (maximum stored date - 29 days) for 'month', in store order; so the
\* record just added (the last of the store) is in the week window
\* whenever its date is within 6 days of the maximum.
C5_WindowIsDateSlice ==
    (call.op = "get_data_for_period" /\ call.period \in {"week", "month"}
        /\ health_records # << >>) =>
      LET days == IF call.period = "week" THEN 6 ELSE 29
          idx == InWindowIdx(days)
          rows == ret.val
          last == health_records[Len(health_records)]
      IN  /\ ret.exc = "none"
          /\ Len(rows) = Cardinality(idx)
          /\ \A i \in idx :
                SameRecord(rows[Cardinality({j \in idx : j <= i})], health_records[i])
          /\ (call.period = "week" /\ to_datetime(last.date) >= MaxStoredDate - 6)
                => SameRecord(rows[Len(rows)], last)

\* A week window taken after adding, out of order, a record dated three
\* days before the latest one: it is the last row, an older added record
\* is left out.
C5_Witness ==
    /\ call.op = "get_data_for_period"
    /\ call.period = "week"
    /\ steps >= 2
    /\ health_records[Len(health_records)].date = strftime(Now - 3)
    /\ health_records[Len(health_records) - 1].date = strftime(Now - 12)
    /\ SameRecord(ret.val[Len(ret.val)], health_records[Len(health_records)])
    /\ Len(ret.val) = 8

(***************************************************************************)
(* WindowSpec: get_data_for_period as a function of the store, on the      *)
(* stores of up to MaxStored submitted records, the empty one included.    *)
(***************************************************************************)
MaxStored == 2

WindowInit ==
    /\ health_records \in SeqsUpTo(AddRecords, MaxStored)
    /\ NoFiles
    /\ call = NoCall
    /\ ret = NoRet
    /\ steps = 0
    /\ writers = << >>

WindowNext == GetDataForPeriod

WindowSpec == WindowInit /\ [][WindowNext]_vars

\* C20: on an empty Record Store get_data_for_period returns an empty
\* result, and raises nothing, for every period value.
C20_EmptyStoreGivesEmptyWindow ==
    (call.op = "get_data_for_period" /\ health_records = << >>) =>
        /\ ret.exc = "none"
        /\ ret.val = << >>

\* the month window of the empty store has been taken
C20_Witness ==
    /\ call.op = "get_data_for_period"
    /\ call.period = "month"
    /\ health_records = << >>
    /\ ret = Returned(<< >>)

\* C22: the Record Store holds at most 30 records in every reachable
\* state, the state right after initialize_session_state seeded a fresh
\* session included.
C22_CapHoldsInEveryState ==
    Len(health_records) <= MaxRecords

\* C18: the Record Store holds one record per calendar date: after any
\* sequence of add_health_record calls no two stored records have the same
\* date string.
C18_OneRecordPerDate ==
    \A i, j \in DOMAIN health_records :
        health_records[i].date = health_records[j].date => i = j

(***************************************************************************)
(* RoundTripSpec: one submitted record taken through the preprocessor, the *)
(* validators, the Record Store and the window.  call carries the record   *)
(* as submitted and as processed from one stage to the next.  A date       *)
(* string in another format than %Y-%m-%d carries its format as a fourth   *)
(* component; pd.to_datetime reads both.                                   *)
(***************************************************************************)
SubmittedDates ==
    {strftime(Now), <<2024, 2, 20, "%Y/%m/%d">>, strftime(Now - 3), strftime(Now - 12)}

SubmittedRecords ==
    {[date |-> d,
      mood |-> [MoodOK EXCEPT !.score = ms, !.notes = mn],
      sleep |-> [SleepOK EXCEPT !.quality = sq],
      diet |-> dt, symptoms |-> SymptomsOK, exercise |-> ExerciseOK] :
        d \in SubmittedDates, ms \in {700, 704, 1006},
        mn \in {<<" ", "o", "k", " ">>, <<"o", "k">>}, sq \in {796, 800},
        dt \in {DietOK, Restrict(DietOK, {"meals", "water_intake", "supplements"})}}

RoundTripInit ==
    /\ health_records \in {<< >>, initialize_session_state}
    /\ NoFiles
    /\ call \in {[op |-> "submitted", submitted |-> r] : r \in SubmittedRecords}
    /\ ret = NoRet
    /\ steps = 0
    /\ writers = << >>

Preprocess ==
    /\ call.op = "submitted"
    /\ \E processed \in {process_health_record(call.submitted)} :
        /\ call' = [op |-> "process_health_record", submitted |-> call.submitted,
                    record |-> processed]
        /\ ret' = Returned(processed)
    /\ UNCHANGED <<health_records, files, steps, writers>>

Validate ==
    /\ call.op = "process_health_record"
    /\ call' = [call EXCEPT !.op = "validations"]
    /\ ret' = Returned(validations(call.record))
    /\ UNCHANGED <<health_records, files, steps, writers>>

\* only a record every validator accepted is stored
Store ==
    /\ call.op = "validations"
    /\ all(ret.val)
    /\ health_records' = add_health_record(health_records, call.record)
    /\ call' = [call EXCEPT !.op = "add_health_record"]
    /\ ret' = NoRet
    /\ steps' = steps + 1
    /\ UNCHANGED <<files, writers>>

Window ==
    \E period \in Periods :
        /\ call.op = "add_health_record"
        /\ call' = [op |-> "get_data_for_period", period |-> period,
                    submitted |-> call.submitted, record |-> call.record]
        /\ ret' = Returned(get_data_for_period(health_records, period))
        /\ UNCHANGED <<health_records, files, steps, writers>>

RoundTripNext == Preprocess \/ Validate \/ Store \/ Window

RoundTripSpec == RoundTripInit /\ [][RoundTripNext]_vars

\* the window holds the record stored last
ReadBack ==
    /\ call.op = "get_data_for_period"
    /\ "submitted" \in DOMAIN call
    /\ ret.val # << >>
    /\ to_datetime(call.record.date) >=
          SeqMax([i \in DOMAIN health_records |-> to_datetime(health_records[i].date)])
            - period_days(call.period)

\* a section without the fields in `keys`
Without(section, keys) == Restrict(section, DOMAIN section \ keys)

\* C12 as stated: the row read back equals the submitted record in every
\* field except the date string and the score fields mood.score and
\* sleep.quality.
C12_RoundTripExceptDateAndScores ==
    ReadBack =>
      LET row == ret.val[Len(ret.val)]
          sub == call.submitted
      IN  /\ DOMAIN sub \subseteq DOMAIN row
          /\ Without(row.mood, {"score"}) = Without(sub.mood, {"score"})
          /\ Without(row.sleep, {"quality"}) = Without(sub.sleep, {"quality"})
          /\ \A k \in DOMAIN sub \ {"date", "mood", "sleep"} : row[k] = sub[k]

\* C12 amended: the row read back has every field of the submitted record;
\* its date is the %Y-%m-%d string of the submitted date, mood.score and
\* sleep.quality are the submitted ones rounded to one decimal, mood.notes
\* and diet.notes the submitted ones without leading and trailing
\* whitespace, and every other field is equal to the submitted one.
C12_RoundTripExceptDateScoresAndNotes ==
    ReadBack =>
      LET row == ret.val[Len(ret.val)]
          sub == call.submitted
      IN  /\ DOMAIN sub \subseteq DOMAIN row
          /\ row.date \in AllDates
          /\ to_datetime(row.date) = to_datetime(sub.date)
          /\ row.mood.score = round1(sub.mood.score)
          /\ row.sleep.quality = round1(sub.sleep.quality)
          /\ row.mood.notes = strip(sub.mood.notes)
          /\ "notes" \in DOMAIN sub.diet => row.diet.notes = strip(sub.diet.notes)
          /\ Without(row.mood, {"score", "notes"}) = Without(sub.mood, {"score", "notes"})
          /\ Without(row.sleep, {"quality"}) = Without(sub.sleep, {"quality"})
          /\ Without(row.diet, {"notes"}) = Without(sub.diet, {"notes"})
          /\ \A k \in DOMAIN sub \ {"date", "mood", "sleep", "diet"} : row[k] = sub[k]

\* a record with a slash date, unrounded scores and padded notes has been
\* read back from the seeded store in the week window
C12_Witness ==
    /\ ReadBack
    /\ call.period = "week"
    /\ Len(health_records) = MaxRecords
    /\ call.submitted.date = <<2024, 2, 20, "%Y/%m/%d">>
    /\ call.submitted.mood.score = 704
    /\ call.submitted.mood.notes = <<" ", "o", "k", " ">>
    /\ ret.val[Len(ret.val)].mood.notes = <<"o", "k">>
    /\ ret.val[Len(ret.val)].mood_score = 700
    /\ ret.val[1].diet = NaN

(***************************************************************************)
(* ConcurrentSpec: threads (one per Streamlit session) inside              *)
(* CloudStorage.save_health_record or DataManager.save_daily_record on the *)
(* same file.  A save is two steps, the load of the whole file and the     *)
(* write of the loaded list with the record appended; nothing locks the    *)
(* file in between.  The feedback generation that ends save_daily_record   *)
(* runs with its write.                                                    *)
(***************************************************************************)
\* one writer, or two writers racing
WriterCounts == {1, 2}

MaxSaves == 2

\* the record of the k-th save of writer w: every save has its own date
WriterRecord(target, w, k) ==
    LET date == strftime(Now - (MaxSaves * (w - 1) + (k - 1)))
    IN  IF target = "cloud" THEN ValidDict(date)
        ELSE HealthRecord(date, MoodOK, SleepOK, DietOK, FlatSymptoms, ExerciseOK)

ConcurrentInit ==
    /\ health_records = << >>
    /\ NoFiles
    /\ call = NoCall
    /\ ret = NoRet
    /\ steps = 0
    /\ \E n \in WriterCounts, target \in {"cloud", "local"} :
          writers = [w \in 1..n |->
                        [pc |-> "idle", target |-> target, saves |-> 0,
                         loaded |-> << >>]]

\* records = self._load_json(self.health_records_path)
WriterLoad ==
    \E w \in DOMAIN writers :
        /\ writers[w].pc = "idle"
        /\ writers[w].saves < MaxSaves
        /\ writers' = [writers EXCEPT
                          ![w].pc = "loaded",
                          ![w].loaded = IF writers[w].target = "cloud"
                                        THEN cloud_records ELSE local_records]
        /\ call' = [op |-> "_load_json", writer |-> w]
        /\ ret' = NoRet
        /\ UNCHANGED <<health_records, files, steps>>

\* records["records"].append(record); self._save_json(path, records)
WriterSave ==
    \E w \in DOMAIN writers :
      \E record \in {WriterRecord(writers[w].target, w, writers[w].saves + 1)} :
        \E result \in
            {IF writers[w].target = "cloud"
             THEN cloud_save_health_record(
                      [CurrentFiles EXCEPT !.cloud_records = writers[w].loaded], record)
             ELSE save_daily_record(
                      [CurrentFiles EXCEPT !.local_records = writers[w].loaded],
                      record, TRUE)} :
          /\ writers[w].pc = "loaded"
          /\ SetFiles(result.files)
          /\ writers' = [writers EXCEPT ![w].pc = "idle",
                                        ![w].saves = writers[w].saves + 1,
                                        ![w].loaded = << >>]
          /\ call' = [op |-> "_save_json", writer |-> w, record |-> record]
          /\ ret' = Outcome(result)
          /\ steps' = steps + 1
          /\ UNCHANGED health_records

ConcurrentNext == WriterLoad \/ WriterSave

ConcurrentSpec == ConcurrentInit /\ [][ConcurrentNext]_vars

\* the file the writers save to
WrittenFile == IF writers[1].target = "cloud" THEN cloud_records ELSE local_records

\* the dates of the records whose save has completed
SavedDates ==
    UNION {{WriterRecord(writers[w].target, w, k).date : k \in 1..writers[w].saves} :
              w \in DOMAIN writers}

\* C16, the single writer: with one writer every record whose save has
\* completed is in the file, in the order of the saves; no update is lost.
C16_SingleWriterLosesNothing ==
    (writers # << >> /\ Len(writers) = 1) =>
       /\ Len(WrittenFile) = writers[1].saves
       /\ \A k \in 1..writers[1].saves :
             WrittenFile[k].date = WriterRecord(writers[1].target, 1, k).date

\* C16, the lost update: two writers both loaded the empty file before
\* either saved; both saves have completed and the file holds one record,
\* the one written last.
C16_Witness ==
    /\ writers # << >> /\ Len(writers) = 2
    /\ writers[1].saves = 1 /\ writers[2].saves = 1
    /\ writers[1].pc = "idle" /\ writers[2].pc = "idle"
    /\ Len(WrittenFile) = 1
    /\ Cardinality(SavedDates) = 2

(***************************************************************************)
(* StoreSpec: add_health_record and get_recent_records on records whose    *)
(* date is a 'YYYY-MM-DD' string or a datetime object.  A datetime object  *)
(* is the pair <<"datetime", n>> with n its day number, so it is told from *)
(* a date string by its length.  get_recent_records rewrites the dates of  *)
(* the records it returns in place: they are the dicts the store holds.    *)
(***************************************************************************)
MaxStoreOps == 3

datetime(n) == <<"datetime", n>>

\* isinstance(x, datetime)
isinstance_datetime(x) == Len(x) = 2

\* st.session_state.health_records[-days:], for days >= 0: -0 is 0, and
\* records[0:] is the whole list
slice_last(records, days) == IF days = 0 THEN records ELSE LastN(records, days)

\* record['date'] = record['date'].strftime('%Y-%m-%d') where it is a datetime
date_to_string(record) ==
    IF isinstance_datetime(record.date)
    THEN [record EXCEPT !.date = strftime(record.date[2])]
    ELSE record

\* DataStore.get_recent_records(days): what it returns and the store it leaves
get_recent_records(records, days) ==
    IF records = << >> THEN [store |-> records, returned |-> << >>]
    ELSE
        LET n == Len(slice_last(records, days))
            first == Len(records) - n + 1
        IN  [store |-> [i \in DOMAIN records |->
                           IF i >= first THEN date_to_string(records[i])
                           ELSE records[i]],
             returned |-> [i \in 1..n |-> date_to_string(records[first + i - 1])]]

\* records handed to add_health_record, one of them dated by a datetime
StoreRecords ==
    {collect_form_data(d, 700, 700) :
        d \in {strftime(Now - 1), strftime(Now), datetime(Now)}}

DaysArguments == {0, 1, 2, 7}

StoreInit ==
    /\ health_records = initialize_session_state
    /\ NoFiles
    /\ call = NoCall
    /\ ret = NoRet
    /\ steps = 0
    /\ writers = << >>

AddStoreRecord ==
    \E record \in StoreRecords :
        /\ steps < MaxStoreOps
        /\ health_records' = add_health_record(health_records, record)
        /\ call' = [op |-> "add_health_record", record |-> record]
        /\ ret' = NoRet
        /\ steps' = steps + 1
        /\ UNCHANGED <<files, writers>>

GetRecentRecords ==
    \E days \in DaysArguments :
      \E result \in {get_recent_records(health_records, days)} :
        /\ health_records' = result.store
        /\ call' = [op |-> "get_recent_records", days |-> days]
        /\ ret' = Returned(result.returned)
        /\ UNCHANGED <<files, steps, writers>>

StoreNext == AddStoreRecord \/ GetRecentRecords

StoreSpec == StoreInit /\ [][StoreNext]_vars

\* C23: after add_health_record(record) the stored record has a
\* 'YYYY-MM-DD' string as its date, also when the record came with a
\* datetime object: every record in the store has a string date.
C23_StoredDatesAreStrings ==
    \A i \in DOMAIN health_records : health_records[i].date \in AllDates

\* C29: get_recent_records(days) returns at most days records for every
\* days >= 0, the last days records of the store in insertion order, so
\* that get_recent_records(0) returns none.
C29_AtMostDaysRecords ==
    call.op = "get_recent_records" =>
        /\ Len(ret.val) <= call.days
        /\ \A i \in DOMAIN ret.val :
               ret.val[i] = health_records[Len(health_records) - Len(ret.val) + i]

(***************************************************************************)
(* ProfileSpec: the user data files and sync_user_data.  The two files are *)
(* passed around as one record P; an operation yields [exc, val, files].   *)
(***************************************************************************)
MaxProfileOps == 2

\* dict.update
dict_update(d, u) ==
    [k \in DOMAIN d \cup DOMAIN u |-> IF k \in DOMAIN u THEN u[k] ELSE d[k]]

Profiles(l, c) == [local_user_data |-> l, cloud_user_data |-> c]

\* DataManager.update_user_profile(data); _load_json raises when the file
\* cannot be read
update_user_profile(P, data, load_ok) ==
    IF ~load_ok THEN Fail("OSError", P)
    ELSE Done(None, [P EXCEPT !.local_user_data = dict_update(@, data)])

\* CloudStorage.update_user_data(user_data)
update_user_data(P, user_data) ==
    Done(None, [P EXCEPT !.cloud_user_data =
                   dict_update(dict_update(@, user_data),
                               [last_update |-> strftime(Now)])])

\* SyncManager.sync_user_data(user_data)
sync_user_data(P, user_data, load_ok) ==
    CHOOSE r \in
        {IF local.exc # "none"
         THEN (IF caught(local.exc) THEN Done(FALSE, local.files) ELSE local)
         ELSE LET cloud == await_plain_call(update_user_data(local.files, user_data))
              IN  IF cloud.exc = "none" THEN Done(TRUE, cloud.files)
                  ELSE IF caught(cloud.exc) THEN Done(FALSE, cloud.files)
                  ELSE cloud
           : local \in {update_user_profile(P, user_data, load_ok)}} : TRUE

\* the updates handed to the three operations
UserUpdates ==
    {[age |-> 53], [age |-> 54], [name |-> "Ann"],
     [height |-> 164, weight |-> 60], [last_update |-> strftime(Now - 1)]}

CurrentProfiles == Profiles(local_user_data, cloud_user_data)

SetProfiles(P) ==
    /\ local_user_data' = P.local_user_data
    /\ cloud_user_data' = P.cloud_user_data

ProfileInit ==
    /\ health_records = << >>
    /\ NoFiles
    /\ call = NoCall
    /\ ret = NoRet
    /\ steps = 0
    /\ writers = << >>

SyncUserData ==
    \E user_data \in UserUpdates, load_ok \in BOOLEAN :
      \E result \in {sync_user_data(CurrentProfiles, user_data, load_ok)} :
        /\ steps < MaxProfileOps
        /\ SetProfiles(result.files)
        /\ call' = [op |-> "sync_user_data", user_data |-> user_data,
                    load_ok |-> load_ok]
        /\ ret' = Outcome(result)
        /\ steps' = steps + 1
        /\ UNCHANGED <<health_records, record_files, writers>>

UpdateUserProfile ==
    \E data \in UserUpdates, load_ok \in BOOLEAN :
      \E result \in {update_user_profile(CurrentProfiles, data, load_ok)} :
        /\ steps < MaxProfileOps
        /\ SetProfiles(result.files)
        /\ call' = [op |-> "update_user_profile", user_data |-> data,
                    load_ok |-> load_ok]
        /\ ret' = Outcome(result)
        /\ steps' = steps + 1
        /\ UNCHANGED <<health_records, record_files, writers>>

CloudUpdateUserData ==
    \E user_data \in UserUpdates :
      \E result \in {update_user_data(CurrentProfiles, user_data)} :
        /\ steps < MaxProfileOps
        /\ SetProfiles(result.files)
        /\ call' = [op |-> "update_user_data", user_data |-> user_data,
                    load_ok |-> TRUE]
        /\ ret' = Outcome(result)
        /\ steps' = steps + 1
        /\ UNCHANGED <<health_records, record_files, writers>>

ProfileNext == SyncUserData \/ UpdateUserProfile \/ CloudUpdateUserData

ProfileSpec == ProfileInit /\ [][ProfileNext]_vars

\* C24: sync_user_data returns True whenever the local and the cloud
\* profile update have both been applied, and afterwards the two profiles
\* agree on every key of the update while the other keys keep the values
\* they had.
C24_AppliedUpdateReturnsTrue ==
    [][(/\ call'.op = "sync_user_data"
        /\ steps' = steps + 1
        /\ call'.load_ok
        /\ \A k \in DOMAIN call'.user_data :
              local_user_data'[k] = call'.user_data[k])
       =>
       (/\ ret' = Returned(TRUE)
        /\ \A k \in DOMAIN call'.user_data :
              local_user_data'[k] = cloud_user_data'[k]
        /\ \A k \in DOMAIN local_user_data \ DOMAIN call'.user_data :
              local_user_data'[k] = local_user_data[k]
        /\ \A k \in DOMAIN cloud_user_data \ DOMAIN call'.user_data :
              cloud_user_data'[k] = cloud_user_data[k])]_vars

(***************************************************************************)
(* FullStoreSpec: add_health_record on the seeded store and on the stores  *)
(* that thirty earlier adds leave, a first record followed by twenty-nine  *)
(* records of an earlier day.                                              *)
(***************************************************************************)
RECURSIVE add_health_records(_, _)
\* add_health_record called once for each record of `added`, in order
add_health_records(records, added) ==
    IF added = << >> THEN records
    ELSE add_health_records(add_health_record(records, Head(added)), Tail(added))

\* the store after add_health_record(first) and then, MaxRecords - 1 times,
\* add_health_record(rest)
refilled_store(first, rest) ==
    add_health_records(initialize_session_state,
                       <<first>> \o [i \in 1..(MaxRecords - 1) |-> rest])

EarlierRecords == {collect_form_data(strftime(Now - 12), s, 700) : s \in {300, 800}}

FullStoreInit ==
    /\ health_records \in
          {initialize_session_state}
              \cup {refilled_store(first, rest) :
                       first \in AddRecords, rest \in EarlierRecords}
    /\ NoFiles
    /\ call = NoCall
    /\ ret = NoRet
    /\ steps = 0
    /\ writers = << >>

FullStoreNext == AddHealthRecord

FullStoreSpec == FullStoreInit /\ [][FullStoreNext]_vars

\* dates in non-decreasing order
Chronological(records) ==
    \A i, j \in DOMAIN records :
        i <= j => to_datetime(records[i].date) <= to_datetime(records[j].date)

\* C27: add_health_record never decreases the maximum date held by the
\* store: the record with the latest date is never the one evicted, also
\* when records were added out of chronological order.
C27_MaxDateNeverDecreases ==
    [][(call'.op = "add_health_record" /\ steps' = steps + 1) =>
         MaxStoredDate' >= MaxStoredDate]_vars

\* C27, amended: add_health_record does not decrease the maximum date of a
\* store whose records are in chronological order, whatever the date of
\* the record added; the latest-dated record of a store that is not in
\* chronological order can be the one evicted.
C27_MaxDateKeptInChronologicalStore ==
    [][(call'.op = "add_health_record" /\ steps' = steps + 1
            /\ Chronological(health_records)) =>
         MaxStoredDate' >= MaxStoredDate]_vars

\* the seeded store, chronological and over the cap, after the add of a
\* record dated twelve days back: two records evicted, the latest date kept
C27_Witness ==
    /\ call.op = "add_health_record"
    /\ call.record.date = strftime(Now - 12)
    /\ steps = 1
    /\ health_records = add_health_record(initialize_session_state, call.record)
    /\ MaxStoredDate = Now

====
